---- MODULE Spec2Model ----
(***************************************************************************)
(* Model of semantic_model_generator/snowflake_utils/snowflake_connector.py *)
(*                                                                         *)
(* Four components, each with its own specification over the shared        *)
(* variables:                                                              *)
(*   AssembleSpec : get_table_representation / _get_column_representation  *)
(*   ConnectSpec  : SnowflakeConnector.connect / _open_connection          *)
(*   CatalogSpec  : get_valid_schemas_tables_columns_df                    *)
(*   ExecuteSpec  : SnowflakeConnector.execute                             *)
(***************************************************************************)
EXTENDS Integers, Sequences, FiniteSets, TLC

\* Python's None where the other values are strings.
None == "None"
\* Optional structured values: Nothing is Python's None, Some(x) is x.
Nothing == << >>
Some(x) == <<x>>

(***************************************************************************)
(* Bounds of the model.                                                    *)
(***************************************************************************)
MaxCols == 3
MaxWorkers == 2
MaxNdv == 2
MaxFaults == 1
MaxQueries == 2
MaxObjects == 3
MaxRows == 2

VARIABLES
    \* ---- get_table_representation -------------------------------------
    columns_df,        \* the column row-set of the table (argument)
    ndv_per_column,    \* sample size (argument)
    max_workers,       \* pool size (argument)
    response,          \* how the warehouse answers each column's sampling query
    data_len,          \* number of distinct values each column of the table holds
    pc,                \* position of the calling thread
    task,              \* per column: "unsubmitted", "queued", "running", "finished", "collected"
    future_result,     \* per column: the Column its future holds, once finished
    index_and_column,  \* (col_index, column) pairs in as_completed order
    table,             \* the returned Table
    cursors_opened,    \* cursors opened on the connection during the call
    queries_issued,    \* per column: the sampling queries handed to cursor.execute
    lastTable,         \* the Table the previous call returned for the same input
    lastWorkers,       \* the max_workers of that previous call (0: no previous call)
    \* ---- SnowflakeConnector.connect -----------------------------------
    env,               \* env_vars: SNOWFLAKE_ROLE, _USER, _PASSWORD, _WAREHOUSE, _HOST
    db_name,           \* connect argument
    schema_name,       \* connect argument (None when omitted)
    cpc,               \* position inside connect / _open_connection / the with block
    session,           \* the network session: "none", "open" or "closed"
    statements,        \* statements issued on the session, in order
    conn,              \* connect's local variable conn (Nothing is None)
    exc,               \* the exception propagating out of connect, if any
    closes,            \* number of connection.close() calls
    yielded,           \* whether the connection was handed to the caller
    \* ---- get_valid_schemas_tables_columns_df ---------------------------
    info_objects,      \* objects information_schema.tables/columns report
    live_objects,      \* objects "show tables" / "show views" list
    table_schema,      \* argument (None when omitted)
    table_names,       \* argument: Nothing when omitted, else Some(list)
    kpc,               \* position inside get_valid_schemas_tables_columns_df
    warnings,          \* number of logger.warning calls
    where_clause,      \* the WHERE clause built for the catalog query
    schemas_tables_columns_df,   \* rows of the information_schema join
    tables_df,                   \* rows of "show tables in database"
    valid_tables_and_views_df,   \* tables and views, concatenated
    result_df,                   \* the returned row-set
    \* ---- SnowflakeConnector.execute -----------------------------------
    warehouse_env,     \* env_vars.SNOWFLAKE_WAREHOUSE
    entry_warehouse,   \* connection.warehouse when execute is called
    conn_warehouse,    \* connection.warehouse
    epc,               \* position inside execute
    issued_sql,        \* statements handed to cursor.execute, in order
    result,            \* what fetchall() returned
    out_dict,          \* the returned mapping
    eexc,              \* the exception execute raises, if any
    driver_error       \* the error the driver raised, if any

assembleVars == <<columns_df, ndv_per_column, max_workers, response, data_len, pc, task, future_result, index_and_column, table, cursors_opened,
                  queries_issued, lastTable, lastWorkers>>

connectVars == <<env, db_name, schema_name, cpc, session, statements, conn, exc, closes,
                 yielded>>

catalogVars == <<info_objects, live_objects, table_schema, table_names, kpc, warnings,
                 where_clause, schemas_tables_columns_df, tables_df,
                 valid_tables_and_views_df, result_df>>

executeVars == <<warehouse_env, entry_warehouse, conn_warehouse, epc, issued_sql, result,
                 out_dict, eexc, driver_error>>

vars == <<assembleVars, connectVars, catalogVars, executeVars>>

\* What the actions of one component leave alone.
notAssembleVars == <<connectVars, catalogVars, executeVars>>
notConnectVars == <<assembleVars, catalogVars, executeVars>>
notCatalogVars == <<assembleVars, connectVars, executeVars>>
notExecuteVars == <<assembleVars, connectVars, catalogVars>>

(***************************************************************************)
(* Data: the catalog rows of one table and the warehouse's column content. *)
(***************************************************************************)
ColumnNames == <<"A", "B", "C", "D", "E">>

\* One row of columns_df, as produced by get_valid_schemas_tables_columns_df.
ColumnRow(i) ==
    [COLUMN_NAME    |-> ColumnNames[i],
     COLUMN_COMMENT |-> "comment of " \o ColumnNames[i],
     DATA_TYPE      |-> IF i % 2 = 1 THEN "NUMBER" ELSE "VARCHAR",
     TABLE_COMMENT  |-> "comment of T"]

\* Raw (driver-typed) distinct values stored in column i: numbers and text.
\* A table holds either no rows or DataLen distinct values per column.
DataLen == 3
RawValue(i, k) ==
    IF k % 2 = 1 THEN [t |-> "int", v |-> 10 * i + k]
                 ELSE [t |-> "str", v |-> "v" \o ToString(10 * i + k)]

\* Python's str() on a raw value.
Str(raw) == IF raw.t = "int" THEN ToString(raw.v) ELSE raw.v

Min(a, b) == IF a < b THEN a ELSE b

\* What "select distinct <col> ... limit n" returns with a DictCursor: a list
\* of single-key dicts; with kind "nondict" the rows come back as tuples.
ResponseKinds == {"ok", "cursor_error", "execute_error", "fetch_error", "nondict"}
FailureKinds == {"cursor_error", "execute_error", "fetch_error", "nondict"}

FetchAll(i, kind, n, len) ==
    [k \in 1..Min(n, len) |->
        [isdict |-> kind # "nondict", key |-> ColumnNames[i], val |-> RawValue(i, k)]]

(***************************************************************************)
(* _get_column_representation                                              *)
(***************************************************************************)
schema_name_arg == "SCH"
table_name_arg == "T"
table_index_arg == 0

\* The f-string of line 134, kept as its parts.
SamplingQuery(column_name, ndv) ==
    [select_distinct |-> column_name, schema |-> schema_name_arg,
     from |-> table_name_arg, limit |-> ndv]

SamplingEnabledNonZero(ndv) == ndv # 0

\* "if ndv > 0": sampling is attempted only for a positive sample size.
SamplingEnabled(ndv) == ndv > 0

\* The exception each failing step raises inside the try block.
RaisedBy(kind) ==
    CASE kind = "cursor_error"  -> "OperationalError"
      [] kind = "execute_error" -> "ProgrammingError"
      [] kind = "fetch_error"   -> "ProgrammingError"
      [] kind = "nondict"       -> "ValueError"
      [] OTHER                  -> None

ExceptCatchesDriverOnly(e) == e \in {"OperationalError", "ProgrammingError"}

\* "except Exception as e": every exception class raised in the try block is caught.
ExceptCatches(e) == e \in {"OperationalError", "ProgrammingError", "ValueError", "AssertionError"}

\* column_values = [str(r[col_key]) for r in res]
CastValues(res) == [k \in 1..Len(res) |-> Str(res[k].val)]

Column(id_, column_name, comment, column_type, values) ==
    [id_ |-> id_, column_name |-> column_name, comment |-> comment,
     column_type |-> column_type, values |-> values]

IssuedQueriesWithRetry(query, ndv, kind) ==
    IF SamplingEnabled(ndv) /\ kind # "cursor_error"
    THEN IF kind \in {"execute_error", "fetch_error"} THEN <<query, query>> ELSE <<query>>
    ELSE << >>

\* cursor.execute(...) of line 133 is reached once, when sampling is enabled
\* and the cursor could be opened; the except block only logs.
IssuedQueries(query, ndv, kind) ==
    IF SamplingEnabled(ndv) /\ kind # "cursor_error" THEN <<query>> ELSE << >>

\* The body of _get_column_representation for the column of row i (1-based
\* position in columns_df; the code's col_index is i - 1).  Result: the Column
\* returned or the exception raised, with the cursors opened and the queries
\* issued on the way.
get_column_representation(i, column_row, ndv, kind, len) ==
    LET query  == SamplingQuery(column_row.COLUMN_NAME, ndv)
        err    == RaisedBy(kind)
        opened == IF SamplingEnabled(ndv) /\ kind # "cursor_error" THEN 1 ELSE 0
        issued == IssuedQueries(query, ndv, kind)
        res    == FetchAll(i, kind, ndv, len)
        failed == /\ SamplingEnabled(ndv)
                  /\ \/ kind \in {"cursor_error", "execute_error", "fetch_error"}
                     \/ (Len(res) > 0 /\ ~res[1].isdict)
        column_values ==
            IF SamplingEnabled(ndv) /\ ~failed /\ Len(res) > 0
            THEN Some(CastValues(res)) ELSE Nothing
    IN  IF failed /\ ~ExceptCatches(err)
        THEN [column |-> Nothing, raised |-> err, cursors |-> opened, queries |-> issued]
        ELSE [column |-> Some(Column(i - 1, column_row.COLUMN_NAME, column_row.COLUMN_COMMENT,
                                     column_row.DATA_TYPE, column_values)),
              raised |-> None, cursors |-> opened, queries |-> issued]

(***************************************************************************)
(* get_table_representation                                                *)
(***************************************************************************)
NumCols == Len(columns_df)
Cols == 1..NumCols

Table(id_, name, comment, columns) ==
    [id_ |-> id_, name |-> name, comment |-> comment, columns |-> columns]

\* sorted(index_and_column, key=lambda x: x[0]): position k holds the pair that
\* has k - 1 pairs with a smaller index before it (indexes are distinct).
SortedByIndex(pairs) ==
    [k \in 1..Len(pairs) |->
        pairs[CHOOSE j \in 1..Len(pairs) :
                 Cardinality({l \in 1..Len(pairs) : pairs[l][1] < pairs[j][1]}) = k - 1]]

OrderedColumnsReversed(pairs) ==
    LET s == SortedByIndex(pairs) IN [k \in 1..Len(s) |-> s[Len(s) + 1 - k][2]]

OrderedColumnsAsCompleted(pairs) == [k \in 1..Len(pairs) |-> pairs[k][2]]

\* columns = [c for _, c in sorted(index_and_column, key=lambda x: x[0])]
OrderedColumns(pairs) ==
    LET s == SortedByIndex(pairs) IN [k \in 1..Len(s) |-> s[k][2]]

\* Number of worker threads of the pool that are running a task.
Running == Cardinality({i \in Cols : task[i] = "running"})

WorkerAvailableUnbounded == TRUE

WorkerAvailableOffByOne == Running < max_workers - 1

\* A worker thread is available to take the next work item.
WorkerAvailable == Running < max_workers

\* Leaving the with block calls executor.shutdown(wait=True): it returns once
\* no submitted work item is queued or running.
PoolDrained == \A i \in Cols : task[i] \in {"finished", "collected"}

FaultSets(n) == {F \in SUBSET (1..n) : Cardinality(F) <= MaxFaults}

AssembleInit ==
    /\ \E n \in 1..MaxCols :
         /\ columns_df = [i \in 1..n |-> ColumnRow(i)]
         /\ \E F \in FaultSets(n) :
              response \in {r \in [1..n -> ResponseKinds] :
                              \A i \in 1..n : (r[i] \in FailureKinds) <=> (i \in F)}
    /\ ndv_per_column \in (0 - 1)..MaxNdv
    \* the responses are consulted only when a query is issued at all
    /\ ndv_per_column < 0 => \A i \in 1..Len(columns_df) : response[i] = "ok"
    /\ data_len \in {0, DataLen}
    /\ max_workers = 1
    /\ pc = "idle"
    /\ task = [i \in 1..Len(columns_df) |-> "unsubmitted"]
    /\ future_result = [i \in 1..Len(columns_df) |-> Nothing]
    /\ index_and_column = << >>
    /\ table = Nothing
    /\ cursors_opened = 0
    /\ queries_issued = [i \in 1..Len(columns_df) |-> << >>]
    /\ lastTable = Nothing
    /\ lastWorkers = 0

\* A caller invokes get_table_representation on the fixed input with any
\* max_workers; after a call with max_workers = 1 it may repeat the call on the
\* same input with any max_workers, remembering what the first call returned.
Call(mw) ==
    /\ pc = "idle" \/ (pc = "returned" /\ lastTable = Nothing /\ max_workers = 1)
    /\ max_workers' = mw
    /\ pc' = "executor"
    /\ lastTable' = table
    /\ lastWorkers' = IF pc = "returned" THEN max_workers ELSE 0
    /\ task' = [i \in Cols |-> "unsubmitted"]
    /\ future_result' = [i \in Cols |-> Nothing]
    /\ index_and_column' = << >>
    /\ table' = Nothing
    /\ cursors_opened' = 0
    /\ queries_issued' = [i \in Cols |-> << >>]
    /\ UNCHANGED <<columns_df, ndv_per_column, response, data_len>>
    /\ UNCHANGED notAssembleVars

\* The dict comprehension of lines 101-104: executor.submit(_get_col, col_index,
\* column_row) for every row, in enumerate order.
Submit ==
    /\ pc = "executor"
    /\ \A i \in Cols : task[i] = "unsubmitted"
    /\ task' = [i \in Cols |-> "queued"]
    /\ UNCHANGED <<columns_df, ndv_per_column, max_workers, response, data_len, pc, future_result,
                   index_and_column, table, cursors_opened, queries_issued, lastTable,
                   lastWorkers>>
    /\ UNCHANGED notAssembleVars

\* A worker thread takes the oldest queued work item (the pool's queue is FIFO).
Start(i) ==
    /\ pc \in {"executor", "unwinding"}
    /\ task[i] = "queued"
    /\ \A j \in Cols : j < i => task[j] # "queued"
    /\ WorkerAvailable
    /\ task' = [task EXCEPT ![i] = "running"]
    /\ UNCHANGED <<columns_df, ndv_per_column, max_workers, response, data_len, pc, future_result, index_and_column, table, cursors_opened,
                   queries_issued, lastTable, lastWorkers>>
    /\ UNCHANGED notAssembleVars

\* The worker runs _get_col to its end and sets the future.
Complete(i) ==
    /\ pc \in {"executor", "unwinding"}
    /\ task[i] = "running"
    /\ LET r == get_column_representation(i, columns_df[i], ndv_per_column, response[i],
                                          data_len)
       IN  /\ future_result' = [future_result EXCEPT ![i] = Some(r)]
           /\ cursors_opened' = cursors_opened + r.cursors
           /\ queries_issued' = [queries_issued EXCEPT ![i] = @ \o r.queries]
    /\ task' = [task EXCEPT ![i] = "finished"]
    /\ UNCHANGED <<columns_df, ndv_per_column, max_workers, response, data_len, pc, index_and_column, table, lastTable, lastWorkers>>
    /\ UNCHANGED notAssembleVars

\* One iteration of "for future in as_completed(...)": future.result() either
\* gives the Column, appended with its index, or re-raises the task's exception.
Collect(i) ==
    /\ pc = "executor"
    /\ \A j \in Cols : task[j] # "unsubmitted"
    /\ task[i] = "finished"
    /\ task' = [task EXCEPT ![i] = "collected"]
    /\ LET r == future_result[i][1]
       IN  IF r.raised # None
           THEN /\ pc' = "unwinding"
                /\ UNCHANGED index_and_column
           ELSE /\ index_and_column' = Append(index_and_column, <<i - 1, r.column[1]>>)
                /\ UNCHANGED pc
    /\ UNCHANGED <<columns_df, ndv_per_column, max_workers, response, data_len,
                   future_result, table, cursors_opened, queries_issued, lastTable,
                   lastWorkers>>
    /\ UNCHANGED notAssembleVars

\* Returning as soon as one future has been consumed, without leaving through
\* the executor's shutdown.
ReturnAfterFirstCompleted ==
    /\ pc = "executor"
    /\ \E i \in Cols : task[i] = "collected"
    /\ table' = Some(Table(table_index_arg, table_name_arg, columns_df[1].TABLE_COMMENT,
                           OrderedColumns(index_and_column)))
    /\ pc' = "returned"
    /\ UNCHANGED <<columns_df, ndv_per_column, max_workers, response, data_len, task,
                   future_result, index_and_column, cursors_opened, queries_issued,
                   lastTable, lastWorkers>>
    /\ UNCHANGED notAssembleVars

\* The with block is left: after the loop has consumed every future (sort,
\* line 110) or while an exception of future.result() propagates; either way
\* through the executor's shutdown. Then the Table is built and returned, or
\* the exception reaches the caller.
Return ==
    /\ \A j \in Cols : task[j] # "unsubmitted"
    /\ PoolDrained
    /\ \/ /\ pc = "executor"
          /\ \A i \in Cols : task[i] = "collected"
          /\ table' = Some(Table(table_index_arg, table_name_arg,
                                 columns_df[1].TABLE_COMMENT,
                                 OrderedColumns(index_and_column)))
          /\ pc' = "returned"
       \/ /\ pc = "unwinding"
          /\ pc' = "raised"
          /\ UNCHANGED table
    /\ UNCHANGED <<columns_df, ndv_per_column, max_workers, response, data_len,
                   task,
                   future_result, index_and_column, cursors_opened, queries_issued,
                   lastTable, lastWorkers>>
    /\ UNCHANGED notAssembleVars

AssembleNext ==
    \/ \E mw \in 1..MaxWorkers : Call(mw)
    \/ Submit
    \/ \E i \in Cols : Start(i)
    \/ \E i \in Cols : Complete(i)
    \/ \E i \in Cols : Collect(i)
    \/ Return

(***************************************************************************)
(* SnowflakeConnector: connect, _open_connection, _close_connection        *)
(***************************************************************************)
account_name == "ACCT"
QUERY_TAG == "SEMANTIC_MODEL_GENERATOR"

\* Python truthiness of an optional string: None and "" are falsy.
Falsy(v) == v \in {None, ""}

CredentialMissingIsNone(v) == v = None

\* "if not role: raise ValueError(...)" of _get_role, _get_user, _get_password,
\* _get_warehouse.
CredentialMissing(v) == Falsy(v)

\* The ValueError of a missing credential; its message names the variable.
CredentialError(var) ==
    [type |-> "ValueError", msg |-> "You need to set an env var", names |-> {var},
     cause |-> None, origin |-> var]

\* An error of the driver, raised by snowflake_connection or cursor().execute().
DriverError(step) ==
    [type |-> "DatabaseError", msg |-> "driver", names |-> {}, cause |-> None,
     origin |-> step]

UseDatabaseErrorUnwrapped(db) == DriverError("use_database")

\* raise ValueError("Could not connect to database ... exist in {account_name}?") from e
UseDatabaseError(db) ==
    [type |-> "ValueError", msg |-> "Could not connect to database",
     names |-> {db, account_name}, cause |-> "DatabaseError", origin |-> "use_database"]

\* raise ValueError("Could not connect to schema ... in the {db_name} database?") from e
UseSchemaError(schema, db) ==
    [type |-> "ValueError", msg |-> "Could not connect to schema",
     names |-> {schema, db}, cause |-> "DatabaseError", origin |-> "use_schema"]

Statement(sql, arg, ok) == [sql |-> sql, arg |-> arg, ok |-> ok]

NextStepSchemaFirst(step) ==
    CASE step = "get_user"             -> "get_password"
      [] step = "get_password"         -> "get_role"
      [] step = "get_role"             -> "get_warehouse"
      [] step = "get_warehouse"        -> "get_host"
      [] step = "get_host"             -> "snowflake_connection"
      [] step = "snowflake_connection" -> "use_schema"
      [] step = "use_schema"           -> "use_database"
      [] step = "use_database"         -> "query_tag"
      [] step = "query_tag"            -> "timeout"
      [] step = "timeout"              -> "return"

\* The order of the argument evaluations and statements of _open_connection.
NextStep(step) ==
    CASE step = "get_user"             -> "get_password"
      [] step = "get_password"         -> "get_role"
      [] step = "get_role"             -> "get_warehouse"
      [] step = "get_warehouse"        -> "get_host"
      [] step = "get_host"             -> "snowflake_connection"
      [] step = "snowflake_connection" -> "use_database"
      [] step = "use_database"         -> "use_schema"
      [] step = "use_schema"           -> "query_tag"
      [] step = "query_tag"            -> "timeout"
      [] step = "timeout"              -> "return"

\* What connect's finally block sees in conn when _open_connection raised: the
\* assignment "conn = self._open_connection(...)" never happened.
ConnAfterOpenRaised == Nothing

ConnectInit ==
    /\ env \in [{"SNOWFLAKE_ROLE", "SNOWFLAKE_USER", "SNOWFLAKE_PASSWORD",
                 "SNOWFLAKE_WAREHOUSE"} -> {None, "", "set"}]
    /\ db_name \in {"", "DB"}
    /\ schema_name \in {None, "", "SC"}
    /\ cpc = "get_user"
    /\ session = "none"
    /\ statements = << >>
    /\ conn = Nothing
    /\ exc = Nothing
    /\ closes = 0
    /\ yielded = FALSE

\* An exception leaves _open_connection: connect's try block is left for its
\* finally block with conn as it was.
RaiseFromOpen(e) ==
    /\ exc' = Some(e)
    /\ conn' = ConnAfterOpenRaised
    /\ cpc' = "finally"

\* self._get_user(), self._get_password(), self._get_role(), self._get_warehouse():
\* the keyword arguments of snowflake_connection(...), evaluated in this order.
GetCredential(step, var) ==
    /\ cpc = step
    /\ IF CredentialMissing(env[var])
       THEN RaiseFromOpen(CredentialError(var))
       ELSE /\ cpc' = NextStep(step)
            /\ UNCHANGED <<exc, conn>>
    /\ UNCHANGED <<env, db_name, schema_name, session, statements, closes, yielded>>
    /\ UNCHANGED notConnectVars

GetUser == GetCredential("get_user", "SNOWFLAKE_USER")
GetPassword == GetCredential("get_password", "SNOWFLAKE_PASSWORD")
GetRole == GetCredential("get_role", "SNOWFLAKE_ROLE")
GetWarehouse == GetCredential("get_warehouse", "SNOWFLAKE_WAREHOUSE")

\* self._get_host(): optional, only logs when unset.
GetHost ==
    /\ cpc = "get_host"
    /\ cpc' = NextStep("get_host")
    /\ UNCHANGED <<env, db_name, schema_name, session, statements, conn, exc, closes,
                   yielded>>
    /\ UNCHANGED notConnectVars

\* snowflake_connection(...): establishes the network session, or fails.
SnowflakeConnection ==
    /\ cpc = "snowflake_connection"
    /\ \/ /\ session' = "open"
          /\ cpc' = NextStep("snowflake_connection")
          /\ UNCHANGED <<exc, conn>>
       \/ /\ RaiseFromOpen(DriverError("snowflake_connection"))
          /\ UNCHANGED session
    /\ UNCHANGED <<env, db_name, schema_name, statements, closes, yielded>>
    /\ UNCHANGED notConnectVars

\* if db_name: connection.cursor().execute(f"USE DATABASE {db_name}"), wrapped.
UseDatabase ==
    /\ cpc = "use_database"
    /\ IF Falsy(db_name)
       THEN /\ cpc' = NextStep("use_database")
            /\ UNCHANGED <<statements, exc, conn>>
       ELSE \/ /\ statements' = Append(statements, Statement("USE DATABASE", db_name, TRUE))
               /\ cpc' = NextStep("use_database")
               /\ UNCHANGED <<exc, conn>>
            \/ /\ statements' = Append(statements, Statement("USE DATABASE", db_name, FALSE))
               /\ RaiseFromOpen(UseDatabaseError(db_name))
    /\ UNCHANGED <<env, db_name, schema_name, session, closes, yielded>>
    /\ UNCHANGED notConnectVars

\* if schema_name: connection.cursor().execute(f"USE SCHEMA {schema_name}"), wrapped.
UseSchema ==
    /\ cpc = "use_schema"
    /\ IF Falsy(schema_name)
       THEN /\ cpc' = NextStep("use_schema")
            /\ UNCHANGED <<statements, exc, conn>>
       ELSE \/ /\ statements' = Append(statements, Statement("USE SCHEMA", schema_name, TRUE))
               /\ cpc' = NextStep("use_schema")
               /\ UNCHANGED <<exc, conn>>
            \/ /\ statements' = Append(statements, Statement("USE SCHEMA", schema_name, FALSE))
               /\ RaiseFromOpen(UseSchemaError(schema_name, db_name))
    /\ UNCHANGED <<env, db_name, schema_name, session, closes, yielded>>
    /\ UNCHANGED notConnectVars

\* An unwrapped session statement: a driver error propagates as it is.
SessionStatement(step, sql, arg) ==
    /\ cpc = step
    /\ \/ /\ statements' = Append(statements, Statement(sql, arg, TRUE))
          /\ cpc' = NextStep(step)
          /\ UNCHANGED <<exc, conn>>
       \/ /\ statements' = Append(statements, Statement(sql, arg, FALSE))
          /\ RaiseFromOpen(DriverError(step))
    /\ UNCHANGED <<env, db_name, schema_name, session, closes, yielded>>
    /\ UNCHANGED notConnectVars

\* ALTER SESSION SET QUERY_TAG = '...' (the tag is a non-empty constant).
SetQueryTag == SessionStatement("query_tag", "ALTER SESSION SET QUERY_TAG", QUERY_TAG)

\* ALTER SESSION SET STATEMENT_TIMEOUT_IN_SECONDS = ...
SetStatementTimeout ==
    SessionStatement("timeout", "ALTER SESSION SET STATEMENT_TIMEOUT_IN_SECONDS",
                     "DEFAULT_SESSION_TIMEOUT_SEC")

\* return connection; conn = ...; yield conn
YieldConnection ==
    /\ cpc = "return"
    /\ conn' = Some("connection")
    /\ yielded' = TRUE
    /\ cpc' = "block"
    /\ UNCHANGED <<env, db_name, schema_name, session, statements, exc, closes>>
    /\ UNCHANGED notConnectVars

\* The caller's with block issues a query on the connection.
BlockQuery ==
    /\ cpc = "block"
    /\ Len(SelectSeq(statements, LAMBDA st : st.sql = "CALLER QUERY")) < MaxQueries
    /\ \E ok \in BOOLEAN :
         statements' = Append(statements, Statement("CALLER QUERY", "q", ok))
    /\ UNCHANGED <<env, db_name, schema_name, cpc, session, conn, exc, closes, yielded>>
    /\ UNCHANGED notConnectVars

\* The with block ends, normally or with an exception of the caller's code.
BlockExit ==
    /\ cpc = "block"
    /\ \/ UNCHANGED exc
       \/ exc' = Some([type |-> "CallerError", msg |-> "caller", names |-> {},
                       cause |-> None, origin |-> "block"])
    /\ cpc' = "finally"
    /\ UNCHANGED <<env, db_name, schema_name, session, statements, conn, closes, yielded>>
    /\ UNCHANGED notConnectVars

FinallyAlwaysClose ==
    /\ cpc = "finally"
    /\ session' = "closed"
    /\ closes' = closes + 1
    /\ cpc' = "exited"
    /\ UNCHANGED <<env, db_name, schema_name, statements, conn, exc, yielded>>
    /\ UNCHANGED notConnectVars

\* finally: if conn is not None: self._close_connection(connection=conn)
Finally ==
    /\ cpc = "finally"
    /\ IF conn # Nothing
       THEN /\ session' = "closed"
            /\ closes' = closes + 1
       ELSE UNCHANGED <<session, closes>>
    /\ cpc' = "exited"
    /\ UNCHANGED <<env, db_name, schema_name, statements, conn, exc, yielded>>
    /\ UNCHANGED notConnectVars

ConnectNext ==
    \/ GetUser
    \/ GetPassword
    \/ GetRole
    \/ GetWarehouse
    \/ GetHost
    \/ SnowflakeConnection
    \/ UseDatabase
    \/ UseSchema
    \/ SetQueryTag
    \/ SetStatementTimeout
    \/ YieldConnection
    \/ BlockQuery
    \/ BlockExit
    \/ Finally

(***************************************************************************)
(* get_valid_schemas_tables_columns_df, _fetch_valid_tables_and_views      *)
(***************************************************************************)
\* The objects a database may hold: (schema, name) pairs, tables and views.
ObjectUniverse ==
    <<[schema |-> "S2", name |-> "T1", kind |-> "table"],
      [schema |-> "S1", name |-> "V1", kind |-> "view"],
      [schema |-> "s1", name |-> "t1", kind |-> "table"],
      [schema |-> "S1", name |-> "T1", kind |-> "table"],
      [schema |-> "S2", name |-> "V2", kind |-> "view"]>>
Objects == 1..MaxObjects

\* LOWER(...) / str.lower(), and ILIKE on names without wildcards.
Lower(x) ==
    CASE x \in {"S1", "s1"} -> "s1"
      [] x \in {"S2", "s2"} -> "s2"
      [] x \in {"T1", "t1"} -> "t1"
      [] x \in {"V1", "v1"} -> "v1"
      [] x \in {"V2", "v2"} -> "v2"
ILike(x, pattern) == Lower(x) = Lower(pattern)

\* The warehouse's ordering of identifiers (upper case before lower case).
Rank(x) ==
    CASE x = "S1" -> 1 [] x = "S2" -> 2 [] x = "s1" -> 3
      [] x = "T1" -> 1 [] x = "V1" -> 2 [] x = "V2" -> 3 [] x = "t1" -> 4

\* information_schema.columns rows of one object: two columns, by ordinal.
ColumnsPerObject == 2
InfoRows(o) ==
    {[TABLE_SCHEMA |-> ObjectUniverse[o].schema, TABLE_NAME |-> ObjectUniverse[o].name,
      COLUMN_NAME |-> "C" \o ToString(n), DATA_TYPE |-> "NUMBER",
      COLUMN_COMMENT |-> "column comment", ordinal_position |-> n] :
        n \in 1..ColumnsPerObject}

\* order by 1, 2, c.ordinal_position
RowBefore(a, b) ==
    \/ Rank(a.TABLE_SCHEMA) < Rank(b.TABLE_SCHEMA)
    \/ /\ a.TABLE_SCHEMA = b.TABLE_SCHEMA
       /\ \/ Rank(a.TABLE_NAME) < Rank(b.TABLE_NAME)
          \/ /\ a.TABLE_NAME = b.TABLE_NAME
             /\ a.ordinal_position <= b.ordinal_position

RECURSIVE OrderBy(_)
OrderBy(rows) ==
    IF rows = {} THEN << >>
    ELSE LET first == CHOOSE r \in rows : \A q \in rows : r = q \/ RowBefore(r, q)
         IN  <<first>> \o OrderBy(rows \ {first})

Truthy(optList) == optList # Nothing /\ optList[1] # << >>

NoWhere == [schema |-> None, names |-> Nothing]

WhereClauseNamesAlways(schema, names) ==
    [schema |-> IF ~Falsy(schema) THEN schema ELSE None,
     names  |-> IF Truthy(names)
                THEN Some({Lower(names[1][k]) : k \in 1..Len(names[1])})
                ELSE Nothing]

\* Lines 194-199: the schema filter, and the table-name filter inside it.
WhereClause(schema, names) ==
    IF ~Falsy(schema)
    THEN [schema |-> schema,
          names  |-> IF Truthy(names)
                     THEN Some({Lower(names[1][k]) : k \in 1..Len(names[1])})
                     ELSE Nothing]
    ELSE NoWhere

\* The select of lines 200-203 run by the warehouse: the join of
\* information_schema.tables and .columns, filtered and ordered; the
\* ordinal position is not selected.
CatalogQuery(where, objs) ==
    LET rows == UNION {InfoRows(o) : o \in objs}
        kept == {r \in rows :
                   /\ where.schema # None => ILike(r.TABLE_SCHEMA, where.schema)
                   /\ where.names # Nothing => Lower(r.TABLE_NAME) \in where.names[1]}
        ordered == OrderBy(kept)
    IN  [k \in 1..Len(ordered) |->
            [TABLE_SCHEMA |-> ordered[k].TABLE_SCHEMA, TABLE_NAME |-> ordered[k].TABLE_NAME,
             COLUMN_NAME |-> ordered[k].COLUMN_NAME, DATA_TYPE |-> ordered[k].DATA_TYPE,
             COLUMN_COMMENT |-> ordered[k].COLUMN_COMMENT]]

\* _get_df("show tables in database") / _get_df("show views in database"): the
\* live objects of one kind, listed by schema and name, renamed to
\* TABLE_NAME, TABLE_SCHEMA, TABLE_COMMENT.
RECURSIVE Listing(_)
Listing(objs) ==
    IF objs = {} THEN << >>
    ELSE LET o == CHOOSE x \in objs : \A y \in objs :
                    \/ x = y
                    \/ Rank(ObjectUniverse[x].schema) < Rank(ObjectUniverse[y].schema)
                    \/ /\ ObjectUniverse[x].schema = ObjectUniverse[y].schema
                       /\ Rank(ObjectUniverse[x].name) < Rank(ObjectUniverse[y].name)
         IN  <<[TABLE_NAME |-> ObjectUniverse[o].name, TABLE_SCHEMA |-> ObjectUniverse[o].schema,
                TABLE_COMMENT |-> "comment of " \o ObjectUniverse[o].name]>>
             \o Listing(objs \ {o})

get_df(kind, objs) == Listing({o \in objs : ObjectUniverse[o].kind = kind})

SameObject(l, r) == l.TABLE_SCHEMA = r.TABLE_SCHEMA /\ l.TABLE_NAME = r.TABLE_NAME

Joined(l, r) ==
    [TABLE_NAME |-> l.TABLE_NAME, TABLE_SCHEMA |-> l.TABLE_SCHEMA,
     TABLE_COMMENT |-> l.TABLE_COMMENT, COLUMN_NAME |-> r.COLUMN_NAME,
     DATA_TYPE |-> r.DATA_TYPE, COLUMN_COMMENT |-> r.COLUMN_COMMENT]

RECURSIVE MergeLeft(_, _)
MergeLeft(left, right) ==
    IF left = << >> THEN << >>
    ELSE LET l == left[1]
             matches == SelectSeq(right, LAMBDA r : SameObject(l, r))
             rows == IF matches = << >>
                     THEN <<[TABLE_NAME |-> l.TABLE_NAME, TABLE_SCHEMA |-> l.TABLE_SCHEMA,
                             TABLE_COMMENT |-> l.TABLE_COMMENT, COLUMN_NAME |-> "NaN",
                             DATA_TYPE |-> "NaN", COLUMN_COMMENT |-> "NaN"]>>
                     ELSE [k \in 1..Len(matches) |-> Joined(l, matches[k])]
         IN  rows \o MergeLeft(Tail(left), right)

\* left.merge(right, how="inner", on=(TABLE_SCHEMA, TABLE_NAME)): for each left
\* row in order, its matching right rows in order.
RECURSIVE Merge(_, _)
Merge(left, right) ==
    IF left = << >> THEN << >>
    ELSE LET l == left[1]
             matches == SelectSeq(right, LAMBDA r : SameObject(l, r))
         IN  [k \in 1..Len(matches) |-> Joined(l, matches[k])]
             \o Merge(Tail(left), right)

CatalogInit ==
    /\ info_objects \in SUBSET Objects
    /\ live_objects \in SUBSET Objects
    /\ table_schema \in {None, "", "s1", "S2"}
    /\ table_names \in {Nothing, Some(<< >>), Some(<<"T1">>), Some(<<"t1", "V1">>)}
    /\ kpc = "start"
    /\ warnings = 0
    /\ where_clause = NoWhere
    /\ schemas_tables_columns_df = << >>
    /\ tables_df = << >>
    /\ valid_tables_and_views_df = << >>
    /\ result_df = << >>

\* Lines 189-199: the warning and the WHERE clause.
BuildQuery ==
    /\ kpc = "start"
    /\ warnings' = IF Truthy(table_names) /\ Falsy(table_schema) THEN warnings + 1
                   ELSE warnings
    /\ where_clause' = WhereClause(table_schema, table_names)
    /\ kpc' = "query"
    /\ UNCHANGED <<info_objects, live_objects, table_schema, table_names,
                   schemas_tables_columns_df, tables_df, valid_tables_and_views_df,
                   result_df>>
    /\ UNCHANGED notCatalogVars

\* Lines 204-206: conn.cursor().execute(query).fetch_pandas_all()
ExecuteQuery ==
    /\ kpc = "query"
    /\ schemas_tables_columns_df' = CatalogQuery(where_clause, info_objects)
    /\ kpc' = "show_tables"
    /\ UNCHANGED <<info_objects, live_objects, table_schema, table_names, warnings,
                   where_clause, tables_df, valid_tables_and_views_df, result_df>>
    /\ UNCHANGED notCatalogVars

\* Line 179: tables = _get_df("show tables in database")
ShowTables ==
    /\ kpc = "show_tables"
    /\ tables_df' = get_df("table", live_objects)
    /\ kpc' = "show_views"
    /\ UNCHANGED <<info_objects, live_objects, table_schema, table_names, warnings,
                   where_clause, schemas_tables_columns_df, valid_tables_and_views_df,
                   result_df>>
    /\ UNCHANGED notCatalogVars

\* Lines 180-181: views = _get_df("show views in database"); pd.concat([tables, views])
ShowViews ==
    /\ kpc = "show_views"
    /\ valid_tables_and_views_df' = tables_df \o get_df("view", live_objects)
    /\ kpc' = "merge"
    /\ UNCHANGED <<info_objects, live_objects, table_schema, table_names, warnings,
                   where_clause, schemas_tables_columns_df, tables_df, result_df>>
    /\ UNCHANGED notCatalogVars

\* Lines 210-213: the inner merge, returned.
MergeAndReturn ==
    /\ kpc = "merge"
    /\ result_df' = Merge(valid_tables_and_views_df, schemas_tables_columns_df)
    /\ kpc' = "returned"
    /\ UNCHANGED <<info_objects, live_objects, table_schema, table_names, warnings,
                   where_clause, schemas_tables_columns_df, tables_df,
                   valid_tables_and_views_df>>
    /\ UNCHANGED notCatalogVars

CatalogNext ==
    \/ BuildQuery
    \/ ExecuteQuery
    \/ ShowTables
    \/ ShowViews
    \/ MergeAndReturn

(***************************************************************************)
(* SnowflakeConnector.execute                                              *)
(***************************************************************************)
query_arg == "QUERY"

\* str.replace("-", "_") on the warehouse names of the model.
ReplaceDash(w) == IF w = "my-wh" THEN "my_wh" ELSE w

\* Error classes of the driver: ProgrammingError, and OperationalError, which
\* is not a subclass of it.
DriverErrorClasses == {"ProgrammingError", "OperationalError"}

DriverRaises(cls, step) ==
    [type |-> cls, msg |-> "driver error", cause |-> None, step |-> step]

\* _get_warehouse(): "if not warehouse: raise ValueError(...)"
WarehouseUnset ==
    [type |-> "ValueError", msg |-> "You need to set an env var for the snowflake warehouse",
     cause |-> None, step |-> "get_warehouse"]

\* raise ValueError(f"Expected a dict for row object. Instead passed {row}")
DataShapeError ==
    [type |-> "ValueError", msg |-> "Expected a dict for row object", cause |-> None,
     step |-> "rows"]

\* except ProgrammingError as e: raise ValueError(f"Query Error: {e}"); any
\* other exception leaves the try block as it is.
RaisedInTry(e) ==
    IF e.type = "ProgrammingError"
    THEN [type |-> "ValueError", msg |-> "Query Error", cause |-> e.type, step |-> e.step]
    ELSE e

WarehouseMissingNever(w) == FALSE

\* if connection.warehouse is None
WarehouseMissing(w) == w = None

\* A statement handed to cursor.execute, with the warehouse the connection
\* had at that moment and whether the statement succeeded.
Issued(sql, arg, wh, ok) == [sql |-> sql, arg |-> arg, warehouse |-> wh, ok |-> ok]

\* Rows fetchall() may return: dicts (insertion-ordered (key, value) items,
\* not all with the same keys or key order) and a tuple.
RowUniverse ==
    <<[isdict |-> TRUE,  items |-> << <<"A", 1>>, <<"B", 2>> >>],
      [isdict |-> TRUE,  items |-> << <<"A", 3>> >>],
      [isdict |-> TRUE,  items |-> << <<"B", 4>>, <<"A", 5>> >>],
      [isdict |-> FALSE, items |-> << <<"A", 6>> >>]>>

RowSeqs ==
    {[k \in 1..Len(ix) |-> RowUniverse[ix[k]]] :
        ix \in UNION {[1..n -> 1..Len(RowUniverse)] : n \in 0..MaxRows}}

\* defaultdict(list)
EmptyDict == [k \in {} |-> << >>]

PrependValue(d, k, v) ==
    IF k \in DOMAIN d THEN [d EXCEPT ![k] = <<v>> \o @] ELSE d @@ (k :> <<v>>)

\* out_dict[k].append(v)
AppendValue(d, k, v) ==
    IF k \in DOMAIN d THEN [d EXCEPT ![k] = Append(@, v)] ELSE d @@ (k :> <<v>>)

\* for k, v in row.items(): out_dict[k].append(v)
RECURSIVE AddItems(_, _)
AddItems(d, items) ==
    IF items = << >> THEN d
    ELSE AddItems(AppendValue(d, items[1][1], items[1][2]), Tail(items))

\* The loop of lines 352-359 from out_dict = d on: the mapping built, or the
\* ValueError raised at the first row that is not a dict.
RECURSIVE BuildOutDict(_, _)
BuildOutDict(d, rows) ==
    IF rows = << >> THEN [raised |-> FALSE, dict |-> d]
    ELSE IF rows[1].isdict
         THEN BuildOutDict(AddItems(d, rows[1].items), Tail(rows))
         ELSE [raised |-> TRUE, dict |-> d]

ExecuteInit ==
    /\ warehouse_env \in {None, "", "my-wh", "WH"}
    /\ entry_warehouse \in {None, "WH0"}
    /\ conn_warehouse = entry_warehouse
    /\ epc = "check_warehouse"
    /\ issued_sql = << >>
    /\ result = Nothing
    /\ out_dict = Nothing
    /\ eexc = Nothing
    /\ driver_error = Nothing

\* An exception is raised inside the try block of execute.
RaiseFromTry(e) ==
    /\ eexc' = Some(RaisedInTry(e))
    /\ epc' = "raised"

\* The driver raises an error of class cls on the statement just issued.
DriverFails(cls, step) ==
    /\ driver_error' = Some(DriverRaises(cls, step))
    /\ RaiseFromTry(DriverRaises(cls, step))

\* Lines 331-332: if connection.warehouse is None: warehouse = self._get_warehouse()
CheckWarehouse ==
    /\ epc = "check_warehouse"
    /\ IF WarehouseMissing(conn_warehouse)
       THEN IF Falsy(warehouse_env)
            THEN RaiseFromTry(WarehouseUnset)
            ELSE epc' = "use_warehouse" /\ UNCHANGED eexc
       ELSE epc' = "cursor" /\ UNCHANGED eexc
    /\ UNCHANGED <<warehouse_env, entry_warehouse, conn_warehouse, issued_sql, result,
                   out_dict, driver_error>>
    /\ UNCHANGED notExecuteVars

\* Lines 339-341: connection.cursor().execute(f'use warehouse {...}'); on
\* success the connection has that warehouse.
UseWarehouse ==
    /\ epc = "use_warehouse"
    /\ LET w == ReplaceDash(warehouse_env)
       IN  \/ /\ issued_sql' = Append(issued_sql, Issued("use warehouse", w, conn_warehouse, TRUE))
              /\ conn_warehouse' = w
              /\ epc' = "cursor"
              /\ UNCHANGED <<eexc, driver_error>>
           \/ \E cls \in DriverErrorClasses :
                /\ issued_sql' = Append(issued_sql, Issued("use warehouse", w, conn_warehouse, FALSE))
                /\ DriverFails(cls, "use_warehouse")
                /\ UNCHANGED conn_warehouse
    /\ UNCHANGED <<warehouse_env, entry_warehouse, result, out_dict>>
    /\ UNCHANGED notExecuteVars

\* Lines 342-346: cursor = connection.cursor(DictCursor); cursor.execute(query)
RunQuery ==
    /\ epc = "cursor"
    /\ \/ /\ issued_sql' = Append(issued_sql, Issued(query_arg, "", conn_warehouse, TRUE))
          /\ epc' = "fetchall"
          /\ UNCHANGED <<eexc, driver_error>>
       \/ \E cls \in DriverErrorClasses :
            /\ issued_sql' = Append(issued_sql, Issued(query_arg, "", conn_warehouse, FALSE))
            /\ DriverFails(cls, "execute")
    /\ UNCHANGED <<warehouse_env, entry_warehouse, conn_warehouse, result, out_dict>>
    /\ UNCHANGED notExecuteVars

\* Line 347: result = cursor_execute.fetchall()
FetchRows ==
    /\ epc = "fetchall"
    /\ \/ /\ \E rows \in RowSeqs : result' = Some(rows)
          /\ epc' = "rows"
          /\ UNCHANGED <<eexc, driver_error>>
       \/ \E cls \in DriverErrorClasses :
            /\ DriverFails(cls, "fetchall")
            /\ UNCHANGED result
    /\ UNCHANGED <<warehouse_env, entry_warehouse, conn_warehouse, issued_sql, out_dict>>
    /\ UNCHANGED notExecuteVars

\* Lines 351-360: the mapping is built from the rows and returned, or the
\* first row that is not a dict raises.
BuildMapping ==
    /\ epc = "rows"
    /\ LET built == BuildOutDict(EmptyDict, result[1])
       IN  IF built.raised
           THEN /\ eexc' = Some(DataShapeError)
                /\ epc' = "raised"
                /\ UNCHANGED out_dict
           ELSE /\ out_dict' = Some(built.dict)
                /\ epc' = "returned"
                /\ UNCHANGED eexc
    /\ UNCHANGED <<warehouse_env, entry_warehouse, conn_warehouse, issued_sql, result,
                   driver_error>>
    /\ UNCHANGED notExecuteVars

ExecuteNext ==
    \/ CheckWarehouse
    \/ UseWarehouse
    \/ RunQuery
    \/ FetchRows
    \/ BuildMapping

(***************************************************************************)
(* Specifications: one per component; the other components stay idle.      *)
(***************************************************************************)
AssembleIdle ==
    /\ columns_df = << >>
    /\ ndv_per_column = 0
    /\ max_workers = 1
    /\ response = << >>
    /\ data_len = 0
    /\ pc = "idle"
    /\ task = << >>
    /\ future_result = << >>
    /\ index_and_column = << >>
    /\ table = Nothing
    /\ cursors_opened = 0
    /\ queries_issued = << >>
    /\ lastTable = Nothing
    /\ lastWorkers = 0

ConnectIdle ==
    /\ env = [v \in {"SNOWFLAKE_ROLE", "SNOWFLAKE_USER", "SNOWFLAKE_PASSWORD",
                     "SNOWFLAKE_WAREHOUSE"} |-> "set"]
    /\ db_name = "DB"
    /\ schema_name = None
    /\ cpc = "idle"
    /\ session = "none"
    /\ statements = << >>
    /\ conn = Nothing
    /\ exc = Nothing
    /\ closes = 0
    /\ yielded = FALSE

CatalogIdle ==
    /\ info_objects = {}
    /\ live_objects = {}
    /\ table_schema = None
    /\ table_names = Nothing
    /\ kpc = "idle"
    /\ warnings = 0
    /\ where_clause = NoWhere
    /\ schemas_tables_columns_df = << >>
    /\ tables_df = << >>
    /\ valid_tables_and_views_df = << >>
    /\ result_df = << >>

ExecuteIdle ==
    /\ warehouse_env = "WH"
    /\ entry_warehouse = None
    /\ conn_warehouse = None
    /\ epc = "idle"
    /\ issued_sql = << >>
    /\ result = Nothing
    /\ out_dict = Nothing
    /\ eexc = Nothing
    /\ driver_error = Nothing

AssembleSpecInit == AssembleInit /\ ConnectIdle /\ CatalogIdle /\ ExecuteIdle
AssembleSpec == AssembleSpecInit /\ [][AssembleNext]_vars

\* One call of get_table_representation under fair scheduling: the main
\* thread and every worker thread keep running, and every sampling query
\* eventually returns or fails (Complete).
FirstCall(mw) == pc = "idle" /\ Call(mw)

AssembleOnceNext ==
    \/ \E mw \in 1..MaxWorkers : FirstCall(mw)
    \/ Submit
    \/ \E i \in Cols : Start(i)
    \/ \E i \in Cols : Complete(i)
    \/ \E i \in Cols : Collect(i)
    \/ Return

\* Some thread that can take a step eventually takes one.
AssembleFairness == WF_vars(AssembleOnceNext)

\* Scheduling does not depend on the sampled values: one sample size, one table
\* length and one kind of failing query stand for the rest.
AssembleFairInit ==
    /\ AssembleSpecInit
    /\ ndv_per_column = 1
    /\ data_len = DataLen
    /\ \A i \in Cols : response[i] \in {"ok", "fetch_error"}

AssembleFairSpec == AssembleFairInit /\ [][AssembleOnceNext]_vars /\ AssembleFairness

ConnectSpecInit == ConnectInit /\ AssembleIdle /\ CatalogIdle /\ ExecuteIdle
ConnectSpec == ConnectSpecInit /\ [][ConnectNext]_vars

CatalogSpecInit == CatalogInit /\ AssembleIdle /\ ConnectIdle /\ ExecuteIdle
CatalogSpec == CatalogSpecInit /\ [][CatalogNext]_vars

ExecuteSpecInit == ExecuteInit /\ AssembleIdle /\ ConnectIdle /\ CatalogIdle
ExecuteSpec == ExecuteSpecInit /\ [][ExecuteNext]_vars

(***************************************************************************)
(* Properties of get_table_representation (AssembleSpec)                   *)
(***************************************************************************)
Returned == pc = "returned"
ReturnedColumns == table[1].columns
FailingCols == {i \in Cols : response[i] \in FailureKinds}
CollectedOutOfOrder ==
    \E k \in 1..Len(index_and_column) : index_and_column[k][1] # k - 1

\* C1: the returned Table has exactly N columns and its i-th column is the one
\* built from the i-th row of the row-set (id, name, comment, datatype), for
\* every max_workers and every completion order.
C1_ColumnOrderIsCatalogOrder ==
    Returned =>
        /\ Len(ReturnedColumns) = NumCols
        /\ \A i \in Cols :
             /\ ReturnedColumns[i].id_ = i - 1
             /\ ReturnedColumns[i].column_name = columns_df[i].COLUMN_NAME
             /\ ReturnedColumns[i].comment = columns_df[i].COLUMN_COMMENT
             /\ ReturnedColumns[i].column_type = columns_df[i].DATA_TYPE

C1_Witness ==
    /\ Returned
    /\ NumCols >= 3
    /\ max_workers >= 2
    /\ CollectedOutOfOrder

\* The values column i's own sampling query returns, cast to strings.
OwnSampledValues(i) ==
    IF data_len = 0 THEN Nothing
    ELSE Some([k \in 1..Min(ndv_per_column, data_len) |-> Str(RawValue(i, k))])

\* C2: when sampling fails for exactly one column, the call raises nothing and
\* returns a Table in which the failing column has no sample values and every
\* other column carries the values of its own sampling query.
C2_SamplingFailureIsIsolated ==
    (ndv_per_column > 0 /\ Cardinality(FailingCols) = 1) =>
        /\ pc \notin {"unwinding", "raised"}
        /\ \A i \in Cols : future_result[i] # Nothing => future_result[i][1].raised = None
        /\ Returned =>
             /\ Len(ReturnedColumns) = NumCols
             /\ \A i \in Cols :
                  ReturnedColumns[i].values =
                      IF i \in FailingCols THEN Nothing ELSE OwnSampledValues(i)

C2_Witness ==
    /\ Returned
    /\ ndv_per_column > 0
    /\ NumCols >= 3
    /\ \E i \in Cols : /\ FailingCols = {i}
                       /\ response[i] = "nondict"
                       /\ ReturnedColumns[i].values = Nothing
                       /\ \A j \in Cols \ {i} : ReturnedColumns[j].values # Nothing

\* C4: a second call on the same input returns the same Table as the first,
\* whatever max_workers each call was given.
C4_SameTableForEveryMaxWorkers ==
    (Returned /\ lastTable # Nothing) => table = lastTable

C4_Witness ==
    /\ Returned
    /\ lastTable # Nothing
    /\ lastWorkers = 1
    /\ max_workers > 1
    /\ NumCols >= 3
    /\ ndv_per_column > 0
    /\ FailingCols # {}
    /\ CollectedOutOfOrder

\* C5: with a sample size <= 0 no cursor is opened and no sampling query is
\* issued, and every Column built has no sample values.
C5_NoSamplingForNonPositiveNdv ==
    ndv_per_column <= 0 =>
        /\ cursors_opened = 0
        /\ \A i \in Cols : queries_issued[i] = << >>
        /\ \A i \in Cols : future_result[i] # Nothing =>
             /\ future_result[i][1].raised = None
             /\ future_result[i][1].column[1].values = Nothing
        /\ Returned => \A i \in Cols : ReturnedColumns[i].values = Nothing

C5_Witness ==
    /\ Returned
    /\ ndv_per_column < 0
    /\ NumCols >= 2
    /\ cursors_opened = 0
    /\ \A i \in Cols : ReturnedColumns[i].values = Nothing

(***************************************************************************)
(* Properties of SnowflakeConnector.connect (ConnectSpec)                  *)
(***************************************************************************)
Exited == cpc = "exited"
MissingCredentials == {v \in DOMAIN env : env[v] \in {None, ""}}
FailedAt(k) == ~statements[k].ok

\* C3: every session connect establishes is closed once connect's scope has
\* been exited, on every exit path.
C3_SessionClosedOnEveryExit == Exited => session # "open"

\* C6: with exactly one mandatory credential missing, connect fails with an
\* error naming that variable and never establishes a session; with all four
\* present it reaches the session open.
C6_MissingCredentialFailsBeforeSession ==
    /\ Cardinality(MissingCredentials) = 1 =>
         /\ session = "none"
         /\ statements = << >>
         /\ ~yielded
         /\ Exited => /\ exc # Nothing
                      /\ exc[1].type = "ValueError"
                      /\ exc[1].names = MissingCredentials
    /\ MissingCredentials = {} =>
         /\ exc # Nothing => exc[1].origin \notin DOMAIN env
         /\ Exited => session # "none" \/ exc[1].origin = "snowflake_connection"

C6_Witness ==
    /\ Exited
    /\ MissingCredentials = {"SNOWFLAKE_WAREHOUSE"}
    /\ env["SNOWFLAKE_WAREHOUSE"] = ""
    /\ exc # Nothing
    /\ exc[1].names = {"SNOWFLAKE_WAREHOUSE"}
    /\ session = "none"

\* The setup statements of a successful connect, in order.
ExpectedSetup ==
    (IF db_name \notin {None, ""}
        THEN <<Statement("USE DATABASE", db_name, TRUE)>> ELSE << >>)
    \o (IF schema_name \notin {None, ""}
        THEN <<Statement("USE SCHEMA", schema_name, TRUE)>> ELSE << >>)
    \o <<Statement("ALTER SESSION SET QUERY_TAG", "SEMANTIC_MODEL_GENERATOR", TRUE),
         Statement("ALTER SESSION SET STATEMENT_TIMEOUT_IN_SECONDS",
                   "DEFAULT_SESSION_TIMEOUT_SEC", TRUE)>>

\* C9: setup statements are issued after the session is opened, in the order
\* USE DATABASE (if given), USE SCHEMA (iff given), query tag, timeout, and all
\* of them before the connection is handed over and before any caller query.
C9_SetupOrderBeforeHandOver ==
    /\ statements # << >> => session # "none"
    /\ ~yielded =>
         /\ Len(statements) <= Len(ExpectedSetup)
         /\ \A k \in 1..Len(statements) :
              /\ statements[k].sql = ExpectedSetup[k].sql
              /\ statements[k].arg = ExpectedSetup[k].arg
              /\ k < Len(statements) => statements[k].ok
    /\ yielded =>
         /\ Len(statements) >= Len(ExpectedSetup)
         /\ SubSeq(statements, 1, Len(ExpectedSetup)) = ExpectedSetup
         /\ \A k \in 1..Len(statements) :
              k > Len(ExpectedSetup) <=> statements[k].sql = "CALLER QUERY"

C9_Witness ==
    /\ yielded
    /\ db_name = "DB"
    /\ schema_name = "SC"
    /\ Len(statements) = 4 + MaxQueries
    /\ statements[5].sql = "CALLER QUERY"

\* C10: a failing USE DATABASE makes connect fail with an error that names the
\* database and the account and wraps the driver error; a failing USE SCHEMA
\* with one that names the schema and wraps the driver error; in both cases
\* nothing is issued afterwards and no connection is handed to the caller.
C10_SelectionFailureWrapsAndStops ==
    \A k \in 1..Len(statements) :
        (FailedAt(k) /\ statements[k].sql \in {"USE DATABASE", "USE SCHEMA"}) =>
            /\ k = Len(statements)
            /\ ~yielded
            /\ cpc \in {"finally", "exited"}
            /\ exc # Nothing
            /\ exc[1].type = "ValueError"
            /\ exc[1].cause = "DatabaseError"
            /\ IF statements[k].sql = "USE DATABASE"
               THEN {db_name, "ACCT"} \subseteq exc[1].names
               ELSE schema_name \in exc[1].names

C10_Witness ==
    /\ Exited
    /\ schema_name = "SC"
    /\ Len(statements) = 1
    /\ statements[1].sql = "USE DATABASE"
    /\ FailedAt(1)
    /\ exc # Nothing
    /\ exc[1].names = {"DB", "ACCT"}
    /\ ~yielded

(***************************************************************************)
(* Properties of get_valid_schemas_tables_columns_df (CatalogSpec)         *)
(***************************************************************************)
CatalogReturned == kpc = "returned"
PairsOf(objs) == {<<ObjectUniverse[o].schema, ObjectUniverse[o].name>> : o \in objs}
RowPair(r) == <<r.TABLE_SCHEMA, r.TABLE_NAME>>
ResultPairs == {RowPair(result_df[k]) : k \in 1..Len(result_df)}

\* C7: every row of the returned row-set belongs to an object that the live
\* listing of tables or views contains and that information_schema reports;
\* stale objects and listed objects without information_schema rows are absent.
C7_OnlyLiveObjectsWithCatalogRows ==
    CatalogReturned =>
        /\ ResultPairs \subseteq PairsOf(live_objects)
        /\ ResultPairs \subseteq PairsOf(info_objects)
        /\ \A k \in 1..Len(result_df) : result_df[k].COLUMN_NAME # "NaN"

C7_Witness ==
    /\ CatalogReturned
    /\ table_schema = None
    /\ info_objects \ live_objects # {}
    /\ live_objects \ info_objects # {}
    /\ result_df # << >>
    /\ ResultPairs = PairsOf(live_objects \cap info_objects)

SchemaGiven == table_schema \notin {None, ""}
TableNamesGiven == table_names # Nothing /\ table_names[1] # << >>
GivenNamesLower == {Lower(table_names[1][k]) : k \in 1..Len(table_names[1])}

\* The row-set of a call with neither filter, on the same catalog.
UnfilteredResult ==
    Merge(get_df("table", live_objects) \o get_df("view", live_objects),
          CatalogQuery(NoWhere, info_objects))

\* C8: the table-name filter restricts the catalog query only together with a
\* schema filter; table names without a schema log one warning, are ignored,
\* and the call returns the row-set of a call with neither filter.
C8_TableFilterNeedsSchema ==
    /\ kpc # "start" =>
         /\ where_clause.names # Nothing <=> (SchemaGiven /\ TableNamesGiven)
         /\ warnings = IF TableNamesGiven /\ ~SchemaGiven THEN 1 ELSE 0
    /\ (CatalogReturned /\ SchemaGiven /\ TableNamesGiven) =>
         \A k \in 1..Len(result_df) : Lower(result_df[k].TABLE_NAME) \in GivenNamesLower
    /\ (CatalogReturned /\ TableNamesGiven /\ ~SchemaGiven) =>
         result_df = UnfilteredResult

C8_Witness ==
    /\ CatalogReturned
    /\ table_names = Some(<<"T1">>)
    /\ table_schema = ""
    /\ warnings = 1
    /\ \E k \in 1..Len(result_df) : Lower(result_df[k].TABLE_NAME) # "t1"

(***************************************************************************)
(* Further properties of get_table_representation                          *)
(***************************************************************************)
TaskDone(i) == task[i] \in {"finished", "collected"}

\* C14: get_table_representation never returns, with a Table or with an
\* error, while a submitted task is still queued or running, and a returned
\* Table is never partial.
C14_ReturnIsFullBarrier ==
    /\ pc \in {"returned", "raised"} => \A i \in Cols : TaskDone(i)
    /\ Returned => /\ \A i \in Cols : task[i] = "collected"
                   /\ Len(index_and_column) = NumCols

C14_Witness ==
    /\ Returned
    /\ NumCols >= 3
    /\ max_workers >= 2
    /\ FailingCols # {}
    /\ \A i \in Cols : task[i] = "collected"

\* C15: at every moment at most max_workers sampling tasks are executing;
\* with max_workers = 1 never two.
C15_RunningAtMostMaxWorkers ==
    /\ Cardinality({i \in Cols : task[i] = "running"}) <= max_workers
    /\ max_workers = 1 =>
         \A i, j \in Cols : (task[i] = "running" /\ task[j] = "running") => i = j

C15_Witness ==
    /\ pc = "executor"
    /\ max_workers >= 2
    /\ Cardinality({i \in Cols : task[i] = "running"}) = max_workers
    /\ \E i \in Cols : task[i] = "queued"

\* C16 as stated: with a positive sample size exactly one sampling query is
\* attempted for every column, whether it succeeds or fails.
C16_ExactlyOneQueryPerColumn ==
    (Returned /\ ndv_per_column > 0) => \A i \in Cols : Len(queries_issued[i]) = 1

\* C16 amended: with a positive sample size at most one sampling query is
\* issued per column - exactly one when the column's cursor could be opened,
\* none when opening the cursor failed - and a failed query is never re-issued.
C16_AtMostOneQueryNoRetry ==
    ndv_per_column > 0 =>
        \A i \in Cols :
            /\ Len(queries_issued[i]) <= 1
            /\ TaskDone(i) =>
                 Len(queries_issued[i]) = IF response[i] = "cursor_error" THEN 0 ELSE 1
            /\ ~TaskDone(i) => queries_issued[i] = << >>

C16_Witness ==
    /\ Returned
    /\ ndv_per_column > 0
    /\ NumCols >= 3
    /\ \E i \in Cols : response[i] = "execute_error" /\ Len(queries_issued[i]) = 1
    /\ \A i \in Cols : Len(queries_issued[i]) = 1

\* C18: under fair scheduling, with every sampling query eventually returning
\* or failing, a call eventually returns a Table, and every queued task
\* eventually completes, whatever the other columns do.
C18_AssemblyTerminates ==
    /\ (pc = "executor") ~> (pc = "returned")
    /\ \A i \in 1..MaxCols :
         (i \in Cols /\ task[i] = "queued") ~> (i \in Cols /\ TaskDone(i))

C18_Witness ==
    /\ Returned
    /\ NumCols >= 3
    /\ ndv_per_column > 0
    /\ FailingCols # {}
    /\ table # Nothing

(***************************************************************************)
(* Further properties of connect                                           *)
(***************************************************************************)
CallerQueries == SelectSeq(statements, LAMBDA st : st.sql = "CALLER QUERY")

\* C19: the connection handed to the caller stays open for the whole block and
\* is closed exactly once, after the block has exited; close is never invoked
\* while the block runs, never twice, and never when no session was
\* established.
C19_ClosedOnceAfterBlock ==
    /\ closes <= 1
    /\ cpc = "block" => (session = "open" /\ closes = 0 /\ conn # Nothing)
    /\ closes = 1 => (yielded /\ Exited /\ session = "closed")
    /\ session = "none" => closes = 0
    /\ (Exited /\ yielded) => closes = 1

C19_Witness ==
    /\ Exited
    /\ yielded
    /\ closes = 1
    /\ session = "closed"
    /\ Len(CallerQueries) >= 2
    /\ exc # Nothing

(***************************************************************************)
(* Further properties of get_valid_schemas_tables_columns_df               *)
(***************************************************************************)
OrdinalOf(row) == CHOOSE n \in 1..ColumnsPerObject : row.COLUMN_NAME = "C" \o ToString(n)

ResultRowBefore(a, b) ==
    RowBefore([TABLE_SCHEMA |-> a.TABLE_SCHEMA, TABLE_NAME |-> a.TABLE_NAME,
               ordinal_position |-> OrdinalOf(a)],
              [TABLE_SCHEMA |-> b.TABLE_SCHEMA, TABLE_NAME |-> b.TABLE_NAME,
               ordinal_position |-> OrdinalOf(b)])

\* C13: the returned row-set is ordered by schema, then by table, then by
\* column ordinal position, whatever the live listings and the catalog hold.
C13_ResultOrderedBySchemaTableOrdinal ==
    CatalogReturned =>
        \A k \in 1..(Len(result_df) - 1) : ResultRowBefore(result_df[k], result_df[k + 1])

(***************************************************************************)
(* Properties of SnowflakeConnector.execute (ExecuteSpec)                  *)
(***************************************************************************)
ExecuteReturned == epc = "returned"
ExecuteRaised == epc = "raised"
QueryStatements == {k \in 1..Len(issued_sql) : issued_sql[k].sql = query_arg}
UseWarehouseStatements == {k \in 1..Len(issued_sql) : issued_sql[k].sql = "use warehouse"}

\* C11: whenever the driver raises an error while the warehouse is attached,
\* the query is executed or its rows are fetched, the caller receives the
\* Query Error wrapping it, never the raw driver error, and no mapping.
C11_DriverErrorsAreWrapped ==
    driver_error # Nothing =>
        /\ ExecuteRaised
        /\ eexc[1].type = "ValueError"
        /\ eexc[1].msg = "Query Error"
        /\ eexc[1].cause = driver_error[1].type
        /\ out_dict = Nothing

\* C12: the caller's query is issued only on a connection with a warehouse;
\* a connection without one gets "use warehouse <default>" first, strictly
\* before the query, and a connection with one gets no "use warehouse".
C12_QueryOnlyWithWarehouse ==
    /\ \A k \in QueryStatements : issued_sql[k].warehouse # None
    /\ (entry_warehouse = None /\ QueryStatements # {}) =>
          /\ issued_sql[1] = Issued("use warehouse", ReplaceDash(warehouse_env), None, TRUE)
          /\ QueryStatements = {2}
          /\ UseWarehouseStatements = {1}
    /\ entry_warehouse # None => UseWarehouseStatements = {}

C12_Witness ==
    /\ ExecuteReturned
    /\ entry_warehouse = None
    /\ warehouse_env = "my-wh"
    /\ Len(issued_sql) = 2
    /\ issued_sql[1].arg = "my_wh"
    /\ issued_sql[2].sql = query_arg
    /\ issued_sql[2].warehouse = "my_wh"

AllDicts(rows) == \A k \in 1..Len(rows) : rows[k].isdict
HasKey(row, key) == \E j \in 1..Len(row.items) : row.items[j][1] = key
ValueAt(row, key) == row.items[CHOOSE j \in 1..Len(row.items) : row.items[j][1] = key][2]
KeysOf(rows) ==
    UNION {{rows[k].items[j][1] : j \in 1..Len(rows[k].items)} : k \in 1..Len(rows)}
ColumnOf(rows, key) ==
    LET having == SelectSeq(rows, LAMBDA r : HasKey(r, key))
    IN  [n \in 1..Len(having) |-> ValueAt(having[n], key)]

\* C17: when every fetched row is a name-keyed record the returned mapping has
\* one entry per column name occurring in the rows, holding that column's
\* values in row order; a row that is not a name-keyed record makes execute
\* fail with the data-shape error and no mapping.
C17_MappingIsColumnsInRowOrder ==
    /\ ExecuteReturned =>
          /\ AllDicts(result[1])
          /\ DOMAIN out_dict[1] = KeysOf(result[1])
          /\ \A key \in KeysOf(result[1]) : out_dict[1][key] = ColumnOf(result[1], key)
    /\ (result # Nothing /\ ~AllDicts(result[1]) /\ epc # "rows") =>
          /\ ExecuteRaised
          /\ eexc = Some(DataShapeError)
          /\ out_dict = Nothing

C17_Witness ==
    /\ ExecuteReturned
    /\ Len(result[1]) >= 2
    /\ result[1][1] # result[1][2]
    /\ DOMAIN out_dict[1] = {"A", "B"}
    /\ Len(out_dict[1]["A"]) >= 2

====
